---- MODULE Spec2Model ----
(***************************************************************************)
(* cote-server (src/src/index.js): an express application in front of      *)
(* Google's OAuth2 and Drive APIs.  One process-wide OAuth2 client, one    *)
(* async handler per route.  A handler runs without interruption up to its *)
(* next await; the upstream call it awaits is issued with the credentials  *)
(* the shared client holds at that moment.  Each action below is one such  *)
(* uninterrupted stretch of a handler: the arrival of a request up to its  *)
(* first await (or its response), and the completion of an awaited         *)
(* upstream call together with the continuation that follows it.           *)
(***************************************************************************)
EXTENDS Integers, Sequences, FiniteSets, TLC

\* Number of requests the server handles in one behaviour.
MaxReq == 2

Req == 1..MaxReq

\* JavaScript undefined: an absent cookie, query parameter or body field.
UNDEF == "<undefined>"

\* JavaScript !x for a string-or-undefined x.
Falsy(x) == x = UNDEF \/ x = ""

\* index.js 15-17, NODE_ENV other than "production".
frontendUrl == "http://localhost:5173"

AccessTokens == {"atA", "atB"}
RefreshTokens == {"rtA"}
Files == {"f1", "f2"}
Codes == {UNDEF, "", "code1"}
States == {UNDEF, "", "/doc"}
ReturnUrls == {UNDEF, "/doc"}
Contents == {UNDEF, "", "hello"}
Filenames == {UNDEF, "", "new.md"}
MimeTypes == {"text/markdown", "application/pdf"}

\* The server never looks into a token: the token of the first request to
\* arrive is called atA, and a later request carries the same or another.
TokensOf(r) == IF r = 1 THEN {"atA"} ELSE AccessTokens

\* What an upstream call can come back with: a result, an error whose
\* code is 404, or any other error.
Outcomes == {"ok", "notfound", "error"}

VARIABLES
    oauth2Client,   \* credentials held by the shared OAuth2 client
    drive,          \* upstream Drive: file id -> metadata and content
    req,            \* request r as received: route, cookies, params, query, body
    pc,             \* where the handler of request r stands
    local,          \* what the handler of r keeps from its first upstream read
    used,           \* credentials the outstanding upstream call of r was issued with
    calls,          \* number of upstream calls issued for r so far
    sent,           \* the response sent by the step just taken, if any
    hist,           \* history: how many toggles the file of r had seen when
                    \* r arrived and when r read it
    starLog,        \* history: the toggles written to each file, in order
    jar,            \* the cookie jar of one browser, the client of SpecSession
    loggedOut,      \* history: that browser's last cookie-bearing answer was
                    \* the one to a logout
    issued          \* history: the state values of the authorization URLs
                    \* sent so far

vars ==
    <<oauth2Client, drive, req, pc, local, used, calls, sent, hist, starLog,
      jar, loggedOut, issued>>

NoCreds == [access_token |-> UNDEF, refresh_token |-> UNDEF]

NoReq ==
    [op |-> "none", accessToken |-> UNDEF, refreshToken |-> UNDEF, id |-> UNDEF,
     code |-> UNDEF, state |-> UNDEF, returnUrl |-> UNDEF,
     content |-> UNDEF, filename |-> UNDEF]

NoCookie == [op |-> "none"]

\* A cookie the browser does not hold, and the jar holding neither cookie.
NoJarCookie == [value |-> UNDEF, path |-> UNDEF, domain |-> UNDEF]
NoJar == [accessToken |-> NoJarCookie, refreshToken |-> NoJarCookie]
NoCookies == [accessToken |-> NoCookie, refreshToken |-> NoCookie]

NoRes ==
    [status |-> 0, body |-> [none |-> TRUE], cookies |-> NoCookies,
     headers |-> {}, location |-> UNDEF]

NoHist == [arrVer |-> 0, readVer |-> 0]

NoLocal == [name |-> UNDEF, mimeType |-> UNDEF, starred |-> FALSE]

\* What the upstream call a step completes came back with.
NoGot == [outcome |-> "none", tokens |-> NoCreds]
Got(o) == [outcome |-> o, tokens |-> NoCreds]
GotTokens(tokens) == [outcome |-> "ok", tokens |-> tokens]

NoSent ==
    [r |-> 0, req |-> NoReq, calls |-> 0, local |-> NoLocal, got |-> NoGot,
     res |-> NoRes]

\* res.status(s).json(b) / res.status(s).send(b): no cookie, no header set.
Reply(s, b) ==
    [status |-> s, body |-> b, cookies |-> NoCookies,
     headers |-> {}, location |-> UNDEF]

\* oauth2Client.setCredentials(c): replaces the credentials as a whole.
setCredentials(at, rt) == [access_token |-> at, refresh_token |-> rt]

\* DriveError answering 500 whatever the error.
DriveErrorAlways500(outcome, msg) == Reply(500, [error |-> msg])

\* The catch block of every Drive route (index.js 257-264, 299-306, ...).
DriveError(outcome, msg) ==
    IF outcome = "notfound"
    THEN Reply(404, [error |-> "File not found"])
    ELSE Reply(500, [error |-> msg])

\* `!accessToken` then 401, the first statement of every authorized route.
Unauthenticated(q) == Falsy(q.accessToken)

Init ==
    /\ oauth2Client = NoCreds
    /\ drive \in [Files -> [name : {"a.md"}, mimeType : MimeTypes,
                            content : {"c0"}, starred : BOOLEAN]]
    /\ drive["f1"].mimeType = "text/markdown"
    /\ drive["f2"].mimeType = "application/pdf"
    /\ req = [r \in Req |-> NoReq]
    /\ pc = [r \in Req |-> "idle"]
    /\ local = [r \in Req |-> NoLocal]
    /\ used = [r \in Req |-> NoCreds]
    /\ calls = [r \in Req |-> 0]
    /\ sent = NoSent
    /\ hist = [r \in Req |-> NoHist]
    /\ starLog = [f \in Files |-> <<>>]
    /\ jar = NoJar
    /\ loggedOut = FALSE
    /\ issued = {}

\* Request r arrives: requests are numbered in their order of arrival.
Arrives(r) ==
    /\ pc[r] = "idle"
    /\ \A s \in Req : s < r => pc[s] # "idle"

\* The handler of r sends its response to request q after n upstream calls,
\* the last of which came back with g, and ends: nothing of the request
\* outlives it in the server.
Send(r, q, n, g, response) ==
    /\ sent' = [r |-> r, req |-> q, calls |-> n, local |-> local[r], got |-> g,
                res |-> response]
    /\ pc' = [pc EXCEPT ![r] = "closed"]
    /\ req' = [req EXCEPT ![r] = NoReq]
    /\ local' = [local EXCEPT ![r] = NoLocal]
    /\ used' = [used EXCEPT ![r] = NoCreds]
    /\ calls' = [calls EXCEPT ![r] = 0]
    /\ issued' = IF q.op = "buildAuthorizationUrl"
                 THEN issued \cup {response.body.url.state}
                 ELSE issued
    /\ UNCHANGED <<jar, loggedOut>>

\* The handler of r answers on arrival, before any upstream call.
Reject(r, q, response) ==
    /\ Send(r, q, 0, NoGot, response)
    /\ UNCHANGED oauth2Client

\* Await with a second upstream call issued along with the first.
AwaitWithProbe(r, creds, label) ==
    /\ used' = [used EXCEPT ![r] = creds]
    /\ calls' = [calls EXCEPT ![r] = @ + 2]
    /\ pc' = [pc EXCEPT ![r] = label]
    /\ sent' = NoSent
    /\ UNCHANGED <<jar, loggedOut, issued>>

\* The handler of r issues an upstream call through the shared client, with
\* the credentials the client holds at that moment, and awaits it.
Await(r, creds, label) ==
    /\ used' = [used EXCEPT ![r] = creds]
    /\ calls' = [calls EXCEPT ![r] = @ + 1]
    /\ pc' = [pc EXCEPT ![r] = label]
    /\ sent' = NoSent
    /\ UNCHANGED <<jar, loggedOut, issued>>

\* An authorized route passes its checks: setCredentials with the request's
\* access token, then the first upstream call.
Begin(r, q, label) ==
    /\ oauth2Client' = setCredentials(q.accessToken, UNDEF)
    /\ Await(r, oauth2Client', label)
    /\ req' = [req EXCEPT ![r] = q]
    /\ UNCHANGED local

\* Fail with the failed call issued once more before the catch block answers.
FailAfterRetry(r, g, response) == Send(r, req[r], calls[r] + 1, g, response)

\* An awaited call of r fails: the catch block answers.
Fail(r, g, response) == Send(r, req[r], calls[r], g, response)

----------------------------------------------------------------------------
\* GET /api/drive/files/:id/star

GetStarRecv(r) ==
    \E at \in TokensOf(r) \cup {UNDEF}, f \in Files :
      LET q == [NoReq EXCEPT !.op = "getStar", !.accessToken = at, !.id = f] IN
      /\ Arrives(r)
      /\ IF Unauthenticated(q)
         THEN Reject(r, q, Reply(401, [text |-> "No access token found"]))
         ELSE Begin(r, q, "get")
      /\ UNCHANGED <<drive, hist, starLog>>

GetStarDone(r) ==
    /\ req[r].op = "getStar" /\ pc[r] = "get"
    /\ \E o \in Outcomes :
         IF o = "ok"
         THEN Send(r, req[r], calls[r], Got(o),
                   Reply(200, [starred |-> drive[req[r].id].starred]))
         ELSE Fail(r, Got(o), DriveError(o, "Failed to get file star status"))
    /\ UNCHANGED <<oauth2Client, drive, hist, starLog>>

----------------------------------------------------------------------------
\* PUT /api/drive/files/:id/star

\* Toggle that writes back what was read.
ToggleKeep(b) == b

\* `!currentStatus.data.starred`, the value the update is asked to write.
Toggle(b) == ~b

\* DriveUpdateStarred as an atomic flip of the file's own value, whatever v.
DriveFlipStarred(d, f, v) == [d EXCEPT ![f].starred = ~d[f].starred]

\* drive.files.update({fileId: f, requestBody: {starred: v}}) on Drive d.
DriveUpdateStarred(d, f, v) == [d EXCEPT ![f].starred = v]

ToggleStarRecv(r) ==
    \E at \in TokensOf(r) \cup {UNDEF}, f \in Files :
      LET q == [NoReq EXCEPT !.op = "toggleStar", !.accessToken = at, !.id = f] IN
      /\ Arrives(r)
      /\ IF Unauthenticated(q)
         THEN /\ Reject(r, q, Reply(401, [text |-> "No access token found"]))
              /\ UNCHANGED hist
         ELSE /\ Begin(r, q, "get")
              /\ hist' = [hist EXCEPT ![r].arrVer = Len(starLog[f])]
      /\ UNCHANGED <<drive, starLog>>

\* drive.files.get returns; the handler goes on to drive.files.update.
ToggleStarGot(r) ==
    /\ req[r].op = "toggleStar" /\ pc[r] = "get"
    /\ \E o \in Outcomes :
         IF o = "ok"
         THEN /\ local' = [local EXCEPT ![r].starred = drive[req[r].id].starred]
              /\ hist' = [hist EXCEPT ![r].readVer = Len(starLog[req[r].id])]
              /\ Await(r, oauth2Client, "update")
              /\ UNCHANGED req
         ELSE /\ Fail(r, Got(o), DriveError(o, "Failed to toggle file star status"))
              /\ hist' = [hist EXCEPT ![r] = NoHist]
    /\ UNCHANGED <<oauth2Client, drive, starLog>>

\* drive.files.update returns; the handler answers with the file's starred.
ToggleStarUpdated(r) ==
    /\ req[r].op = "toggleStar" /\ pc[r] = "update"
    /\ \E o \in Outcomes :
         IF o = "ok"
         THEN LET f == req[r].id IN
              /\ drive' = DriveUpdateStarred(drive, f, Toggle(local[r].starred))
              /\ starLog' = [starLog EXCEPT ![f] =
                               Append(@, [read |-> local[r].starred,
                                          arrVer |-> hist[r].arrVer,
                                          readVer |-> hist[r].readVer,
                                          returned |-> drive'[f].starred])]
              /\ Send(r, req[r], calls[r], Got(o),
                      Reply(200, [starred |-> drive'[f].starred]))
         ELSE /\ Fail(r, Got(o), DriveError(o, "Failed to toggle file star status"))
              /\ UNCHANGED <<drive, starLog>>
    /\ hist' = [hist EXCEPT ![r] = NoHist]
    /\ UNCHANGED oauth2Client

----------------------------------------------------------------------------
\* PUT /api/drive/files/:id/content

\* SetContentCheck with the body looked at before the cookie.
SetContentCheckBodyFirst(q) ==
    IF q.content = UNDEF THEN 400
    ELSE IF Falsy(q.accessToken) THEN 401
    ELSE 0

\* The two early returns of the route: 0 when the handler goes on.
SetContentCheck(q) ==
    IF Falsy(q.accessToken) THEN 401
    ELSE IF q.content = UNDEF THEN 400
    ELSE 0

SetContentRecv(r) ==
    \E at \in TokensOf(r) \cup {UNDEF}, f \in Files, c \in Contents :
      LET q == [NoReq EXCEPT !.op = "setContent", !.accessToken = at,
                             !.id = f, !.content = c] IN
      /\ Arrives(r)
      /\ CASE SetContentCheck(q) = 401 ->
                Reject(r, q, Reply(401, [text |-> "No access token found"]))
           [] SetContentCheck(q) = 400 ->
                Reject(r, q, Reply(400, [error |-> "Content is required"]))
           [] OTHER -> Begin(r, q, "get")
      /\ UNCHANGED <<drive, hist, starLog>>

\* The metadata read returns; the handler goes on to the media update.
SetContentGot(r) ==
    /\ req[r].op = "setContent" /\ pc[r] = "get"
    /\ \E o \in Outcomes :
         IF o = "ok"
         THEN /\ local' = [local EXCEPT ![r].mimeType = drive[req[r].id].mimeType]
              /\ Await(r, oauth2Client, "update")
              /\ UNCHANGED req
         ELSE Fail(r, Got(o), DriveError(o, "Failed to update file content"))
    /\ UNCHANGED <<oauth2Client, drive, hist, starLog>>

\* DriveUpdateMedia storing the body under a default type.
DriveUpdateMediaOctet(d, f, mimeType, body) ==
    [d EXCEPT ![f].content = body, ![f].mimeType = "application/octet-stream"]

\* drive.files.update({fileId: f, media: {mimeType, body}}) on Drive d.
DriveUpdateMedia(d, f, mimeType, body) ==
    [d EXCEPT ![f].content = body, ![f].mimeType = mimeType]

SetContentUpdated(r) ==
    /\ req[r].op = "setContent" /\ pc[r] = "update"
    /\ \E o \in Outcomes :
         IF o = "ok"
         THEN LET f == req[r].id IN
              /\ drive' = DriveUpdateMedia(drive, f, local[r].mimeType,
                                           req[r].content)
              /\ Send(r, req[r], calls[r], Got(o),
                      Reply(200, [id |-> f, name |-> drive'[f].name,
                                  mimeType |-> drive'[f].mimeType]))
         ELSE /\ Fail(r, Got(o), DriveError(o, "Failed to update file content"))
              /\ UNCHANGED drive
    /\ UNCHANGED <<oauth2Client, hist, starLog>>

----------------------------------------------------------------------------
\* PUT /api/drive/files/:id

\* RenameCheck testing the filename as setContent tests the content.
RenameCheckUndefinedOnly(q) ==
    IF Falsy(q.accessToken) THEN 401
    ELSE IF q.filename = UNDEF THEN 400
    ELSE 0

\* The two early returns of the route: 0 when the handler goes on.
RenameCheck(q) ==
    IF Falsy(q.accessToken) THEN 401
    ELSE IF Falsy(q.filename) THEN 400
    ELSE 0

RenameRecv(r) ==
    \E at \in TokensOf(r) \cup {UNDEF}, f \in Files, n \in Filenames :
      LET q == [NoReq EXCEPT !.op = "rename", !.accessToken = at,
                             !.id = f, !.filename = n] IN
      /\ Arrives(r)
      /\ CASE RenameCheck(q) = 401 ->
                Reject(r, q, Reply(401, [text |-> "No access token found"]))
           [] RenameCheck(q) = 400 ->
                Reject(r, q, Reply(400, [error |-> "Filename is required"]))
           [] OTHER -> Begin(r, q, "update")
      /\ UNCHANGED <<drive, hist, starLog>>

\* DriveUpdateName giving the name to every file.
DriveUpdateNameAll(d, f, name) == [g \in Files |-> [d[g] EXCEPT !.name = name]]

\* drive.files.update({fileId: f, requestBody: {name}}) on Drive d.
DriveUpdateName(d, f, name) == [d EXCEPT ![f].name = name]

RenameUpdated(r) ==
    /\ req[r].op = "rename" /\ pc[r] = "update"
    /\ \E o \in Outcomes :
         IF o = "ok"
         THEN LET f == req[r].id IN
              /\ drive' = DriveUpdateName(drive, f, req[r].filename)
              /\ Send(r, req[r], calls[r], Got(o),
                      Reply(200, [id |-> f, name |-> drive'[f].name]))
         ELSE /\ Fail(r, Got(o), DriveError(o, "Failed to rename file"))
              /\ UNCHANGED drive
    /\ UNCHANGED <<oauth2Client, hist, starLog>>

----------------------------------------------------------------------------
\* GET /api/drive/files/:id

\* The keys of the supportedMimeTypes object literal.
supportedMimeTypes ==
    {"text/plain", "text/markdown", "text/x-markdown", "text/x-c",
     "text/x-c++", "text/x-java", "text/x-python", "text/x-php",
     "text/x-ruby", "text/x-swift", "text/x-go", "text/x-rust",
     "text/x-kotlin", "text/x-scala", "text/x-yaml", "text/x-toml",
     "text/x-ini", "text/x-shellscript", "text/x-sql", "text/x-html",
     "text/x-css", "text/x-javascript", "text/x-typescript",
     "text/x-coffeescript", "text/x-clojure", "text/x-dart", "text/x-elixir",
     "text/x-fsharp", "text/x-graphql", "text/x-handlebars", "text/x-hcl",
     "text/x-julia", "text/x-less", "text/x-lua", "text/x-objective-c",
     "text/x-pascal", "text/x-perl", "text/x-powershell", "text/x-protobuf",
     "text/x-pug", "text/x-r", "text/x-redis", "text/x-rst", "text/x-sass",
     "text/x-scss", "text/x-sol", "text/x-sparql", "text/x-st", "text/x-tcl",
     "text/x-twig", "text/x-vb", "text/x-xml", "text/x-wgsl",
     "text/x-verilog", "text/x-systemverilog", "text/x-mips", "text/x-msdax",
     "text/x-mysql", "text/x-pgsql", "text/x-redshift", "text/x-qsharp",
     "text/x-razor", "text/x-sb", "text/x-scheme", "text/x-aes",
     "text/x-pla", "text/x-postiats", "text/x-powerquery", "text/x-mdx",
     "text/x-liquid", "text/x-m3", "text/x-lexon", "text/x-ecl",
     "text/x-cameligo", "text/x-pascaligo", "text/x-bicep", "text/x-azcli",
     "text/x-bat", "text/x-csp", "text/x-cypher", "text/x-dockerfile",
     "text/x-flow9", "text/x-freemarker2", "text/x-abap", "text/x-apex",
     "application/javascript", "application/json", "application/xml",
     "application/x-httpd-php", "application/x-python", "application/x-ruby",
     "application/x-java", "application/x-csharp",
     "application/x-typescript", "application/x-ld+json",
     "application/x-yaml", "application/x-toml", "application/x-ini",
     "application/x-shellscript", "application/x-sql", "application/x-html",
     "application/x-css", "application/x-go", "application/x-rust",
     "application/x-kotlin", "application/x-scala", "application/x-swift",
     "application/x-dart", "application/x-elixir", "application/x-fsharp",
     "application/x-graphql", "application/x-handlebars",
     "application/x-hcl", "application/x-julia", "application/x-less",
     "application/x-lua", "application/x-objective-c",
     "application/x-pascal", "application/x-perl",
     "application/x-powershell", "application/x-protobuf",
     "application/x-pug", "application/x-r", "application/x-redis",
     "application/x-rst", "application/x-sass", "application/x-scss",
     "application/x-sol", "application/x-sparql", "application/x-st",
     "application/x-tcl", "application/x-twig", "application/x-vb",
     "application/x-xml", "application/x-wgsl", "application/x-verilog",
     "application/x-systemverilog", "application/x-mips",
     "application/x-msdax", "application/x-mysql", "application/x-pgsql",
     "application/x-redshift", "application/x-qsharp", "application/x-razor",
     "application/x-sb", "application/x-scheme", "application/x-aes",
     "application/x-pla", "application/x-postiats",
     "application/x-powerquery", "application/x-mdx", "application/x-liquid",
     "application/x-m3", "application/x-lexon", "application/x-ecl",
     "application/x-cameligo", "application/x-pascaligo",
     "application/x-bicep", "application/x-azcli", "application/x-bat",
     "application/x-csp", "application/x-cypher", "application/x-dockerfile",
     "application/x-flow9", "application/x-freemarker2",
     "application/x-abap", "application/x-apex"}

\* Properties every object literal inherits from Object.prototype: a lookup
\* supportedMimeTypes[key] finds them too, and each of them is truthy.
ObjectPrototypeKeys ==
    {"constructor", "hasOwnProperty", "isPrototypeOf", "propertyIsEnumerable",
     "toLocaleString", "toString", "valueOf", "__proto__",
     "__defineGetter__", "__defineSetter__", "__lookupGetter__",
     "__lookupSetter__"}

\* String.prototype.startsWith
startsWith(s, prefix) ==
    Len(s) >= Len(prefix) /\ SubSeq(s, 1, Len(prefix)) = prefix

\* isTextFile that accepts every mime type.
isTextFileAny(mimeType) == TRUE

\* supportedMimeTypes[mimeType] || mimeType.startsWith('text/')
isTextFile(mimeType) ==
    \/ mimeType \in supportedMimeTypes
    \/ mimeType \in ObjectPrototypeKeys
    \/ startsWith(mimeType, "text/")

GetContentRecv(r) ==
    \E at \in TokensOf(r) \cup {UNDEF}, f \in Files :
      LET q == [NoReq EXCEPT !.op = "getContent", !.accessToken = at, !.id = f] IN
      /\ Arrives(r)
      /\ IF Unauthenticated(q)
         THEN Reject(r, q, Reply(401, [text |-> "No access token found"]))
         ELSE Begin(r, q, "get")
      /\ UNCHANGED <<drive, hist, starLog>>

\* The metadata read returns: the MIME gate, then the media read.
GetContentMeta(r) ==
    /\ req[r].op = "getContent" /\ pc[r] = "get"
    /\ \E o \in Outcomes :
         IF o = "ok"
         THEN LET m == drive[req[r].id] IN
              IF ~isTextFile(m.mimeType)
              THEN Send(r, req[r], calls[r], Got(o),
                        Reply(400, [error |-> "Unsupported file type",
                                    mimeType |-> m.mimeType]))
              ELSE /\ local' = [local EXCEPT ![r] = [name |-> m.name,
                                                     mimeType |-> m.mimeType,
                                                     starred |-> m.starred]]
                   /\ Await(r, oauth2Client, "media")
                   /\ UNCHANGED req
         ELSE Fail(r, Got(o), DriveError(o, "Failed to fetch file"))
    /\ UNCHANGED <<oauth2Client, drive, hist, starLog>>

GetContentMedia(r) ==
    /\ req[r].op = "getContent" /\ pc[r] = "media"
    /\ \E o \in Outcomes :
         IF o = "ok"
         THEN Send(r, req[r], calls[r], Got(o),
                   Reply(200, [filename |-> local[r].name,
                               content |-> drive[req[r].id].content,
                               starred |-> local[r].starred]))
         ELSE Fail(r, Got(o), DriveError(o, "Failed to fetch file"))
    /\ UNCHANGED <<oauth2Client, drive, hist, starLog>>

----------------------------------------------------------------------------
\* GET /auth/google/url

\* `req.query.returnUrl || '/'`
returnUrlOrRoot(returnUrl) == IF Falsy(returnUrl) THEN "/" ELSE returnUrl

\* oauth2Client.generateAuthUrl: the query parameters of the URL it builds.
generateAuthUrl(state) ==
    [access_type |-> "offline",
     scope |-> <<"https://www.googleapis.com/auth/drive.file",
                 "https://www.googleapis.com/auth/drive.install">>,
     include_granted_scopes |-> TRUE,
     prompt |-> "consent",
     state |-> state]

BuildAuthorizationUrl(r) ==
    \E u \in ReturnUrls :
      LET q == [NoReq EXCEPT !.op = "buildAuthorizationUrl", !.returnUrl = u] IN
      /\ Arrives(r)
      /\ Reject(r, q, Reply(200, [url |-> generateAuthUrl(returnUrlOrRoot(u))]))
      /\ UNCHANGED <<drive, hist, starLog>>

----------------------------------------------------------------------------
\* GET /auth/callback

SecurityHeaders ==
    {"X-Content-Type-Options", "X-Frame-Options", "X-XSS-Protection",
     "Strict-Transport-Security"}

\* maxAge of the accessToken cookie (3600000 ms), kept here in seconds: the
\* code computes in doubles, where 30 * 24 * 3600000 does not overflow.
AccessMaxAge == 3600

\* maxAge of the refreshToken cookie (30 * 24 * 3600000 ms), in seconds.
RefreshMaxAge == 30 * 24 * 3600

\* res.cookie(name, value, {...cookieOptions, maxAge}), NODE_ENV other
\* than "production".
SetCookie(value, maxAge) ==
    [op |-> "set", value |-> value, maxAge |-> maxAge, httpOnly |-> TRUE,
     secure |-> FALSE, sameSite |-> "lax", path |-> "/", domain |-> "localhost"]

\* ExchangeCodeCheck without the check of state.
ExchangeCodeCheckCodeOnly(q) == IF Falsy(q.code) THEN 400 ELSE 0

\* The two early returns of the route: 0 when the handler goes on.
ExchangeCodeCheck(q) ==
    IF Falsy(q.code) THEN 400
    ELSE IF Falsy(q.state) THEN 400
    ELSE 0

\* TokensValid without the check of refresh_token.
TokensValidAccessOnly(tokens) == ~Falsy(tokens.access_token)

\* `!tokens.access_token || !tokens.refresh_token` is false.
TokensValid(tokens) ==
    ~Falsy(tokens.access_token) /\ ~Falsy(tokens.refresh_token)

\* RedirectTarget forgetting the state.
RedirectTargetRoot(state) == frontendUrl \o "/"

\* `${frontendUrl}${returnUrl}` with returnUrl = state || '/'.
RedirectTarget(state) == frontendUrl \o returnUrlOrRoot(state)

\* The cookies the callback sets once the tokens are validated.
SessionCookies(tokens) ==
    [accessToken |-> SetCookie(tokens.access_token, AccessMaxAge),
     refreshToken |-> SetCookie(tokens.refresh_token, RefreshMaxAge)]

\* What oauth2Client.getToken(code) can resolve to; it can also reject.
TokenResponses ==
    [access_token : AccessTokens \cup {UNDEF},
     refresh_token : RefreshTokens \cup {UNDEF}]

ExchangeCodeRecv(r) ==
    \E c \in Codes, s \in States :
      LET q == [NoReq EXCEPT !.op = "exchangeCode", !.code = c, !.state = s] IN
      /\ Arrives(r)
      /\ IF ExchangeCodeCheck(q) = 400
         THEN Reject(r, q, Reply(400,
                  [error |-> IF Falsy(c) THEN "Missing authorization code"
                                         ELSE "Missing state parameter"]))
         ELSE /\ Await(r, oauth2Client, "getToken")
              /\ req' = [req EXCEPT ![r] = q]
              /\ UNCHANGED <<oauth2Client, local>>
      /\ UNCHANGED <<drive, hist, starLog>>

\* getToken returns or throws; validation, setCredentials, cookies, redirect.
ExchangeCodeDone(r) ==
    /\ req[r].op = "exchangeCode" /\ pc[r] = "getToken"
    /\ \/ /\ Fail(r, Got("error"),
                  Reply(500, [error |-> "Authentication failed",
                              message |-> "upstream"]))
          /\ UNCHANGED oauth2Client
       \/ \E tokens \in TokenResponses :
            IF ~TokensValid(tokens)
            THEN /\ Fail(r, GotTokens(tokens),
                         Reply(500, [error |-> "Authentication failed",
                             message |-> "Invalid token response from Google"]))
                 /\ UNCHANGED oauth2Client
            ELSE /\ oauth2Client' = tokens
                 /\ Send(r, req[r], calls[r], GotTokens(tokens),
                         [status |-> 302, body |-> [redirect |-> TRUE],
                          cookies |-> SessionCookies(tokens),
                          headers |-> SecurityHeaders,
                          location |-> RedirectTarget(req[r].state)])
    /\ UNCHANGED <<drive, hist, starLog>>

----------------------------------------------------------------------------
\* POST /api/auth/refresh

\* RefreshCheck that lets every request through.
RefreshCheckNone(q) == 0

\* The early return of the route: 0 when the handler goes on.
RefreshCheck(q) == IF Falsy(q.refreshToken) THEN 401 ELSE 0

\* RefreshCookies re-issuing the refreshToken cookie as well.
RefreshCookiesBoth(access_token) ==
    [accessToken |-> SetCookie(access_token, AccessMaxAge),
     refreshToken |-> SetCookie(access_token, RefreshMaxAge)]

\* The cookies a successful refresh sets.
RefreshCookies(access_token) ==
    [accessToken |-> SetCookie(access_token, AccessMaxAge),
     refreshToken |-> NoCookie]

RefreshRecv(r) ==
    \E rt \in RefreshTokens \cup {UNDEF}, at \in {UNDEF, "atA"} :
      LET q == [NoReq EXCEPT !.op = "refreshAccessToken",
                             !.accessToken = at, !.refreshToken = rt] IN
      /\ Arrives(r)
      /\ IF RefreshCheck(q) = 401
         THEN Reject(r, q, Reply(401, [error |-> "No refresh token found"]))
         ELSE /\ oauth2Client' = setCredentials(UNDEF, rt)
              /\ Await(r, oauth2Client', "refreshAccessToken")
              /\ req' = [req EXCEPT ![r] = q]
              /\ UNCHANGED local
      /\ UNCHANGED <<drive, hist, starLog>>

\* oauth2Client.refreshAccessToken() throws, or stores the new tokens in the
\* client (keeping the refresh token the client holds) and returns them.
RefreshDone(r) ==
    /\ req[r].op = "refreshAccessToken" /\ pc[r] = "refreshAccessToken"
    /\ \/ /\ Fail(r, Got("error"),
                  Reply(401, [error |-> "Failed to refresh token",
                              message |-> "upstream"]))
          /\ UNCHANGED oauth2Client
       \/ \E at \in AccessTokens \cup {UNDEF} :
            /\ oauth2Client' = [access_token |-> at,
                                refresh_token |-> oauth2Client.refresh_token]
            /\ IF Falsy(at)
               THEN Fail(r, GotTokens(setCredentials(at, UNDEF)),
                         Reply(401, [error |-> "Failed to refresh token",
                            message |-> "Invalid token response from Google"]))
               ELSE Send(r, req[r], calls[r], GotTokens(setCredentials(at, UNDEF)),
                         [status |-> 200, body |-> [success |-> TRUE],
                          cookies |-> RefreshCookies(at),
                          headers |-> SecurityHeaders,
                          location |-> UNDEF])
    /\ UNCHANGED <<drive, hist, starLog>>

----------------------------------------------------------------------------
\* GET /api/auth/status

\* StatusCheck looking at the accessToken cookie only.
StatusCheckAccessOnly(q) == IF ~Falsy(q.accessToken) THEN 200 ELSE 401

\* `if (accessToken && refreshToken)`: the status of the answer.
StatusCheck(q) ==
    IF ~Falsy(q.accessToken) /\ ~Falsy(q.refreshToken) THEN 200 ELSE 401

CheckStatus(r) ==
    \E at \in {UNDEF, "", "atA"}, rt \in RefreshTokens \cup {UNDEF} :
      LET q == [NoReq EXCEPT !.op = "checkStatus",
                             !.accessToken = at, !.refreshToken = rt] IN
      /\ Arrives(r)
      /\ IF StatusCheck(q) = 200
         THEN Reject(r, q, Reply(200, [empty |-> TRUE]))
         ELSE Reject(r, q, Reply(401,
                  [error |-> "No access token or refresh token found"]))
      /\ UNCHANGED <<drive, hist, starLog>>

----------------------------------------------------------------------------
\* GET /api/auth/user

FetchCurrentUserRecv(r) ==
    \E at \in TokensOf(r) \cup {UNDEF} :
      LET q == [NoReq EXCEPT !.op = "fetchCurrentUser", !.accessToken = at] IN
      /\ Arrives(r)
      /\ IF Unauthenticated(q)
         THEN Reject(r, q, Reply(401, [error |-> "No access token found"]))
         ELSE Begin(r, q, "userinfo")
      /\ UNCHANGED <<drive, hist, starLog>>

\* oauth2.userinfo.get returns the profile of the user whose token the call
\* was issued with, or fails: every failure is answered 500.
FetchCurrentUserDone(r) ==
    /\ req[r].op = "fetchCurrentUser" /\ pc[r] = "userinfo"
    /\ \E o \in Outcomes :
         IF o = "ok"
         THEN Send(r, req[r], calls[r], Got(o),
                   Reply(200, [userOf |-> used[r].access_token]))
         ELSE Fail(r, Got(o),
                   Reply(500, [error |-> "Failed to fetch user information"]))
    /\ UNCHANGED <<oauth2Client, drive, hist, starLog>>

----------------------------------------------------------------------------
\* POST /api/auth/logout

\* res.clearCookie(name): no options given, so express's defaults.
ClearCookie == [op |-> "clear", path |-> "/", domain |-> UNDEF]

Logout(r) ==
    \E at \in {UNDEF, "atA"} :
      LET q == [NoReq EXCEPT !.op = "logout", !.accessToken = at] IN
      /\ Arrives(r)
      /\ Reject(r, q, [status |-> 200, body |-> [empty |-> TRUE],
                       cookies |-> [accessToken |-> ClearCookie,
                                    refreshToken |-> ClearCookie],
                       headers |-> {}, location |-> UNDEF])
      /\ UNCHANGED <<drive, hist, starLog>>

----------------------------------------------------------------------------
\* The routes, by component.

StarRoutes(r) ==
    \/ GetStarRecv(r)
    \/ GetStarDone(r)
    \/ ToggleStarRecv(r)
    \/ ToggleStarGot(r)
    \/ ToggleStarUpdated(r)

ContentRoutes(r) ==
    \/ SetContentRecv(r)
    \/ SetContentGot(r)
    \/ SetContentUpdated(r)
    \/ RenameRecv(r)
    \/ RenameUpdated(r)
    \/ GetContentRecv(r)
    \/ GetContentMeta(r)
    \/ GetContentMedia(r)

AuthRoutes(r) ==
    \/ BuildAuthorizationUrl(r)
    \/ ExchangeCodeRecv(r)
    \/ ExchangeCodeDone(r)
    \/ RefreshRecv(r)
    \/ RefreshDone(r)
    \/ CheckStatus(r)
    \/ FetchCurrentUserRecv(r)
    \/ FetchCurrentUserDone(r)
    \/ Logout(r)

Next == \E r \in Req : StarRoutes(r) \/ ContentRoutes(r) \/ AuthRoutes(r)

Spec == Init /\ [][Next]_vars

\* The upstream call request r awaits returns or fails, and the handler
\* runs on to its next await or to its answer.
Completes(r) ==
    \/ GetStarDone(r)
    \/ ToggleStarGot(r)
    \/ ToggleStarUpdated(r)
    \/ SetContentGot(r)
    \/ SetContentUpdated(r)
    \/ RenameUpdated(r)
    \/ GetContentMeta(r)
    \/ GetContentMedia(r)
    \/ ExchangeCodeDone(r)
    \/ RefreshDone(r)
    \/ FetchCurrentUserDone(r)

\* Every upstream call eventually returns or fails, and node then runs the
\* continuation of the handler that awaits it.
SpecLive == Init /\ [][Next]_vars /\ \A r \in Req : WF_vars(Completes(r))

\* The server with the requests of one component only.
NextStar == \E r \in Req : StarRoutes(r)
SpecStar == Init /\ [][NextStar]_vars

NextContent == \E r \in Req : ContentRoutes(r)
SpecContent == Init /\ [][NextContent]_vars

\* The Drive File Gateway: the five Drive routes.
NextGateway == \E r \in Req : StarRoutes(r) \/ ContentRoutes(r)
SpecGateway == Init /\ [][NextGateway]_vars

NextAuth == \E r \in Req : AuthRoutes(r)
SpecAuth == Init /\ [][NextAuth]_vars

\* One browser as the only client.  It sends one request at a time, with
\* the cookies its jar holds, and applies the Set-Cookie headers of the
\* answer to the jar before it sends the next.  The server handles any number
\* of requests: the slot of an answered request is taken again by a later one.

\* What the jar keeps of a cookie set by res.cookie.
JarCookie(c) == [value |-> c.value, path |-> c.path, domain |-> c.domain]

\* The cookie the jar is left with in place of `held` once the browser has
\* received c.  An expired cookie (res.clearCookie) evicts the one it
\* replaces: the one of the same name, path and domain.  A clear that names
\* no domain is a host-only cookie; whether it replaces a cookie set with a
\* Domain attribute naming the same host depends on the browser (strict:
\* the host-only flag tells them apart, as in RFC 6265bis and in Chrome and
\* Firefox; otherwise they are the same cookie, as in RFC 6265 5.3).
StoreCookie(held, c, strict) ==
    CASE c.op = "set" -> JarCookie(c)
      [] c.op = "clear" ->
           IF held.path = c.path /\ held.domain = c.domain THEN NoJarCookie
           ELSE IF held.path = c.path /\ c.domain = UNDEF /\ ~strict
                THEN NoJarCookie
                ELSE held
      [] OTHER -> held

\* The jars the browser can be left with after an answer carrying `cookies`.
Receive(j, cookies) ==
    { [accessToken |-> StoreCookie(j.accessToken, cookies.accessToken, strict),
       refreshToken |-> StoreCookie(j.refreshToken, cookies.refreshToken, strict)]
      : strict \in BOOLEAN }

\* The request arriving in this step comes from the browser: the browser has
\* taken the answer to its previous request, and the request carries the
\* cookies of the jar.
FromBrowser(r) ==
    /\ sent = NoSent
    /\ \A s \in Req : pc[s] = "idle"
    /\ LET q == IF pc'[r] = "closed" THEN sent'.req ELSE req'[r] IN
       /\ q.op \notin {"buildAuthorizationUrl", "exchangeCode"}
             => q.accessToken = jar.accessToken.value
       /\ q.op \in {"refreshAccessToken", "checkStatus"}
             => q.refreshToken = jar.refreshToken.value

\* The browser takes the answer to its request r and applies the cookies.
BrowserTakes(r) ==
    /\ sent.r = r /\ pc[r] = "closed"
    /\ jar' \in Receive(jar, sent.res.cookies)
    /\ loggedOut' =
          IF sent.req.op = "logout" THEN TRUE
          ELSE IF \E n \in DOMAIN sent.res.cookies : sent.res.cookies[n].op = "set"
               THEN FALSE
               ELSE loggedOut
    /\ pc' = [pc EXCEPT ![r] = "idle"]
    /\ sent' = NoSent
    /\ UNCHANGED <<oauth2Client, drive, req, local, used, calls, hist, starLog,
                   issued>>

BrowserRoutes(r) ==
    \/ ExchangeCodeRecv(r) /\ FromBrowser(r)
    \/ ExchangeCodeDone(r)
    \/ RefreshRecv(r) /\ FromBrowser(r)
    \/ RefreshDone(r)
    \/ CheckStatus(r) /\ FromBrowser(r)
    \/ Logout(r) /\ FromBrowser(r)
    \/ GetStarRecv(r) /\ FromBrowser(r)
    \/ GetStarDone(r)
    \/ BrowserTakes(r)

NextSession == \E r \in Req : BrowserRoutes(r)
SpecSession == Init /\ [][NextSession]_vars

\* The MIME gate on its own: the mime type Drive reports for f1 is any of
\* GateInputs, and the getContent route applies the gate to it.
GateInputs ==
    {"text/markdown", "text/anything", "text/", "text", "",
     "application/json", "application/pdf", "image/png", "constructor"}

InitGate ==
    /\ oauth2Client = NoCreds
    /\ drive \in [Files -> [name : {"a.md"}, mimeType : GateInputs,
                            content : {"c0"}, starred : BOOLEAN]]
    /\ drive["f2"].mimeType = "application/pdf"
    /\ req = [r \in Req |-> NoReq]
    /\ pc = [r \in Req |-> "idle"]
    /\ local = [r \in Req |-> NoLocal]
    /\ used = [r \in Req |-> NoCreds]
    /\ calls = [r \in Req |-> 0]
    /\ sent = NoSent
    /\ hist = [r \in Req |-> NoHist]
    /\ starLog = [f \in Files |-> <<>>]
    /\ jar = NoJar
    /\ loggedOut = FALSE
    /\ issued = {}

GetContentRoute(r) ==
    \/ GetContentRecv(r)
    \/ GetContentMeta(r)
    \/ GetContentMedia(r)

NextGate == \E r \in Req : GetContentRoute(r)
SpecGate == InitGate /\ [][NextGate]_vars

----------------------------------------------------------------------------
\* Properties.

\* The routes that need the accessToken cookie.
SessionRoutes ==
    {"getStar", "toggleStar", "getContent", "setContent", "rename",
     "fetchCurrentUser"}

CookieSet(c) == c.op = "set" /\ ~Falsy(c.value)

\* C1: a request to a Drive route or to /api/auth/user that carries no
\* accessToken cookie is answered 401 and no upstream call is issued for it,
\* also when its body is invalid (the 401 check comes before the 400 check).
C1_NoTokenIs401 ==
    /\ (sent.req.op \in SessionRoutes /\ Falsy(sent.req.accessToken))
          => (sent.res.status = 401 /\ sent.calls = 0)
    /\ \A r \in Req :
          (req[r].op \in SessionRoutes /\ calls[r] > 0)
             => ~Falsy(req[r].accessToken)

C1_Witness ==
    /\ sent.req.op = "setContent"
    /\ sent.req.accessToken = UNDEF /\ sent.req.content = UNDEF
    /\ sent.res.status = 401 /\ sent.calls = 0

\* C2: every outstanding upstream call of a request to a route that needs
\* the accessToken cookie was issued with that request's own access token.
C2_OwnCredentials ==
    \A r \in Req :
        (req[r].op \in SessionRoutes /\ calls[r] > 0)
           => used[r].access_token = req[r].accessToken

\* C3: a callback without code or without state is answered 400, with no
\* token exchange issued and no cookie set.
C3_MissingCodeOrState ==
    /\ (sent.req.op = "exchangeCode"
          /\ (Falsy(sent.req.code) \/ Falsy(sent.req.state)))
          => /\ sent.res.status = 400
             /\ sent.calls = 0
             /\ sent.res.cookies = NoCookies
    /\ \A r \in Req :
          (req[r].op = "exchangeCode" /\ calls[r] > 0)
             => (~Falsy(req[r].code) /\ ~Falsy(req[r].state))

C3_Witness ==
    /\ sent.req.op = "exchangeCode"
    /\ sent.req.code = "code1" /\ sent.req.state = UNDEF
    /\ sent.res.status = 400

\* C4: when the provider returns both an access and a refresh token for a
\* callback with a code and a state, the response sets the accessToken
\* cookie to the access token for one hour, the refreshToken cookie to the
\* refresh token for thirty days, and redirects to frontendUrl followed by
\* the state as received.
C4_ExchangeSuccess ==
    (/\ sent.req.op = "exchangeCode"
     /\ sent.calls = 1
     /\ sent.got.outcome = "ok"
     /\ ~Falsy(sent.got.tokens.access_token)
     /\ ~Falsy(sent.got.tokens.refresh_token))
       => /\ sent.res.status = 302
          /\ sent.res.location = frontendUrl \o sent.req.state
          /\ sent.res.cookies.accessToken.op = "set"
          /\ sent.res.cookies.accessToken.value = sent.got.tokens.access_token
          /\ sent.res.cookies.accessToken.maxAge = 3600
          /\ sent.res.cookies.refreshToken.op = "set"
          /\ sent.res.cookies.refreshToken.value = sent.got.tokens.refresh_token
          /\ sent.res.cookies.refreshToken.maxAge = 30 * 24 * 3600

C4_Witness ==
    /\ sent.req.op = "exchangeCode" /\ sent.req.state = "/doc"
    /\ sent.got.tokens = [access_token |-> "atB", refresh_token |-> "rtA"]
    /\ sent.res.status = 302
    /\ sent.res.location = "http://localhost:5173/doc"

\* C5: when the provider rejects the exchange or leaves out the access or
\* the refresh token, the callback is answered with an upstream error status
\* (401 or 500), not redirected, and sets no cookie; whatever the outcome of
\* a callback, its response sets both session cookies or neither.
C5_ExchangeFailure ==
    /\ (/\ sent.req.op = "exchangeCode"
        /\ sent.calls = 1
        /\ \/ sent.got.outcome # "ok"
           \/ Falsy(sent.got.tokens.access_token)
           \/ Falsy(sent.got.tokens.refresh_token))
          => /\ sent.res.status \in {401, 500}
             /\ sent.res.location = UNDEF
             /\ sent.res.cookies = NoCookies
    /\ sent.req.op = "exchangeCode"
          => (CookieSet(sent.res.cookies.accessToken)
                <=> CookieSet(sent.res.cookies.refreshToken))

C5_Witness ==
    /\ sent.req.op = "exchangeCode"
    /\ sent.got.tokens = [access_token |-> "atA", refresh_token |-> UNDEF]
    /\ sent.res.status = 500

\* C6: a refresh request without refreshToken cookie is answered 401, with
\* no upstream call issued and no cookie set.
C6_RefreshNeedsCookie ==
    /\ (sent.req.op = "refreshAccessToken" /\ Falsy(sent.req.refreshToken))
          => /\ sent.res.status = 401
             /\ sent.calls = 0
             /\ sent.res.cookies = NoCookies
    /\ \A r \in Req :
          (req[r].op = "refreshAccessToken" /\ calls[r] > 0)
             => ~Falsy(req[r].refreshToken)

C6_Witness ==
    /\ sent.req.op = "refreshAccessToken"
    /\ sent.req.refreshToken = UNDEF
    /\ sent.res.status = 401

\* C7: a refresh for which the provider returns a new access token sets the
\* accessToken cookie to it for one hour and neither sets nor clears the
\* refreshToken cookie; when the provider rejects the refresh token or
\* leaves out the access token, the answer is 401 and touches no cookie.
C7_RefreshCookies ==
    (sent.req.op = "refreshAccessToken" /\ sent.calls = 1)
       => IF sent.got.outcome = "ok" /\ ~Falsy(sent.got.tokens.access_token)
          THEN /\ sent.res.status = 200
               /\ sent.res.cookies.accessToken.op = "set"
               /\ sent.res.cookies.accessToken.value
                     = sent.got.tokens.access_token
               /\ sent.res.cookies.accessToken.maxAge = 3600
               /\ sent.res.cookies.refreshToken = NoCookie
          ELSE /\ sent.res.status = 401
               /\ sent.res.cookies = NoCookies

C7_Witness ==
    /\ sent.req.op = "refreshAccessToken"
    /\ sent.req.refreshToken = "rtA"
    /\ sent.got.tokens.access_token = "atB"
    /\ sent.res.status = 200

\* The i-th toggle written to file f read the file after the (i-1)-th was
\* written and no toggle was written between its read and its write.
ReadThenWrote(f, i) == starLog[f][i].readVer = i - 1

\* C8: two successful toggles of a file, one after the other with no other
\* write of starred in between, return the negation of the file's starred
\* value and then that value, and leave the file with that value.
C8_ToggleTwice ==
    \A f \in Files : \A i \in 1..(Len(starLog[f]) - 1) :
        (ReadThenWrote(f, i) /\ ReadThenWrote(f, i + 1))
           => /\ starLog[f][i].returned = ~starLog[f][i].read
              /\ starLog[f][i + 1].returned = starLog[f][i].read
              /\ Len(starLog[f]) = i + 1
                    => drive[f].starred = starLog[f][i].read

\* The second toggle arrived after the first was answered.
C8_Witness ==
    /\ Len(starLog["f1"]) = 2
    /\ ReadThenWrote("f1", 1) /\ ReadThenWrote("f1", 2)
    /\ starLog["f1"][2].arrVer = 1
    /\ starLog["f1"][1].read = TRUE
    /\ sent.req.op = "toggleStar" /\ sent.res.status = 200
    /\ sent.res.body.starred = TRUE

\* C9: when two toggles of a file both read it before either writes, both
\* read the same value and both return its negation, and the file is left
\* with that negation: one of the two toggles is lost.
C9_LostToggle ==
    \A f \in Files : \A i \in 1..(Len(starLog[f]) - 1) :
        (ReadThenWrote(f, i) /\ starLog[f][i + 1].readVer = i - 1)
           => /\ starLog[f][i + 1].read = starLog[f][i].read
              /\ starLog[f][i].returned = ~starLog[f][i].read
              /\ starLog[f][i + 1].returned = ~starLog[f][i].read
              /\ Len(starLog[f]) = i + 1
                    => drive[f].starred = ~starLog[f][i].read

\* Two toggles in flight together, each reading before either wrote.
C9_Witness ==
    /\ Len(starLog["f1"]) = 2
    /\ starLog["f1"][1].readVer = 0 /\ starLog["f1"][2].readVer = 0
    /\ starLog["f1"][1].returned = starLog["f1"][2].returned
    /\ drive["f1"].starred = ~starLog["f1"][1].read

\* C10: getContent issues the media read only for a file whose mime type
\* the gate accepts: for application/pdf the metadata read is answered 400
\* and no second call is issued; for text/markdown the answer to a
\* successful media read carries the name and starred of the metadata read
\* and the content of the media read.
C10_GetContentGate ==
    /\ \A r \in Req :
          (req[r].op = "getContent" /\ pc[r] = "media")
             => /\ drive[req[r].id].mimeType = "text/markdown"
                /\ local[r].mimeType = "text/markdown"
    /\ sent.req.op = "getContent" /\ sent.calls > 0 =>
          LET f == drive[sent.req.id] IN
          /\ f.mimeType = "application/pdf" =>
                /\ sent.calls = 1
                /\ sent.got.outcome = "ok" =>
                      /\ sent.res.status = 400
                      /\ sent.res.body.error = "Unsupported file type"
          /\ (f.mimeType = "text/markdown" /\ sent.got.outcome = "ok") =>
                /\ sent.calls = 2
                /\ sent.res.status = 200
                /\ sent.res.body = [filename |-> sent.local.name,
                                    content |-> f.content,
                                    starred |-> sent.local.starred]
          /\ (f.mimeType = "text/markdown" /\ sent.calls = 1) =>
                sent.got.outcome # "ok"

\* A getContent answered with the name its metadata read found, the file
\* having been renamed before the media read.
C10_Witness ==
    /\ sent.req.op = "getContent" /\ sent.res.status = 200
    /\ sent.res.body.filename = "a.md"
    /\ drive[sent.req.id].name = "new.md"

\* C11: the MIME gate accepts a mime type if and only if it is a key of the
\* allow-list or starts with "text/": getContent goes on to the media read
\* only for such a mime type, and answers 400 Unsupported only for a mime
\* type that is neither.
C11_GateIff ==
    /\ \A r \in Req :
          (req[r].op = "getContent" /\ pc[r] = "media")
             => \/ local[r].mimeType \in supportedMimeTypes
                \/ startsWith(local[r].mimeType, "text/")
    /\ (sent.req.op = "getContent" /\ sent.res.status = 400)
          => /\ sent.res.body.mimeType \notin supportedMimeTypes
             /\ ~startsWith(sent.res.body.mimeType, "text/")

\* The routes of the Drive File Gateway.
GatewayRoutes == {"getStar", "toggleStar", "getContent", "setContent", "rename"}

\* The request r awaits an upstream call.
Awaiting(r) ==
    pc[r] \in {"get", "update", "media", "getToken", "refreshAccessToken",
               "userinfo"}

\* C12: whenever an upstream call of a Drive route completes, first or
\* second, the request either goes on to its next upstream call (the call
\* succeeded) or is answered in that same step: 404 if the call failed with
\* "not found", 500 if it failed otherwise, and 200 or the gate's 400 only
\* if it did not fail.
C12_UpstreamFailure ==
    [][\A r \in Req :
         (req[r].op \in GatewayRoutes /\ Awaiting(r) /\ pc'[r] # pc[r])
            => \/ /\ pc'[r] \in {"update", "media"}
                  /\ calls'[r] = calls[r] + 1
               \/ /\ pc'[r] = "closed" /\ sent'.r = r
                  /\ sent'.req = req[r] /\ sent'.calls = calls[r]
                  /\ \/ sent'.got.outcome = "notfound" /\ sent'.res.status = 404
                     \/ sent'.got.outcome = "error" /\ sent'.res.status = 500
                     \/ sent'.got.outcome = "ok" /\ sent'.res.status \in {200, 400}]_vars

\* A setContent whose second upstream call, the media update, failed with
\* "not found" and was answered 404.
C12_Witness ==
    /\ sent.req.op = "setContent" /\ sent.calls = 2
    /\ sent.got.outcome = "notfound" /\ sent.res.status = 404

\* C13: logout destroys the session of the browser.  Once the browser has
\* taken the answer to a logout, its jar holds neither cookie, and from then
\* on, until cookies are set again, a status request and a gateway request
\* of the browser are answered 401.
C13_LogoutDestroysSession ==
    /\ loggedOut => jar = NoJar
    /\ (loggedOut /\ sent.req.op = "checkStatus") => sent.res.status = 401
    /\ (loggedOut /\ sent.req.op = "getStar")
          => sent.res.status = 401 /\ sent.calls = 0

\* C14: checkStatus answers 200 if and only if the request carries both the
\* accessToken and the refreshToken cookie (a cookie with an empty value
\* counts as absent), and 401 otherwise; it answers on arrival, without an
\* upstream call, and its answer neither sets nor clears a cookie.
C14_CheckStatus ==
    /\ sent.req.op = "checkStatus" =>
          /\ sent.res.status \in {200, 401}
          /\ sent.res.status = 200
                <=> (~Falsy(sent.req.accessToken) /\ ~Falsy(sent.req.refreshToken))
          /\ sent.calls = 0 /\ sent.got = NoGot
          /\ sent.res.cookies = NoCookies
    /\ \A r \in Req : req[r].op # "checkStatus"

\* A status request carrying only the accessToken cookie, answered 401.
C14_Witness ==
    /\ sent.req.op = "checkStatus"
    /\ sent.req.accessToken = "atA" /\ sent.req.refreshToken = UNDEF
    /\ sent.res.status = 401 /\ sent.calls = 0

\* The mime type Drive holds for each file at the start.
InitialMimeType(f) == IF f = "f1" THEN "text/markdown" ELSE "application/pdf"

\* C15: setContent writes the given content under the mime type it read:
\* every file keeps its initial mime type, and a 200 answer follows a write
\* of the request's content, the empty string included.  When the mime-type
\* read fails the request is answered after that one call and the step
\* leaves Drive as it was.  A request with an access token and no content
\* field is answered 400 with no upstream call.
C15_SetContent ==
    [][/\ \A f \in Files : drive'[f].mimeType = InitialMimeType(f)
       /\ sent'.req.op = "setContent" =>
             /\ sent'.res.status = 200 =>
                   /\ sent'.calls = 2
                   /\ sent'.req.content # UNDEF
                   /\ drive'[sent'.req.id].content = sent'.req.content
                   /\ sent'.local.mimeType = drive[sent'.req.id].mimeType
                   /\ sent'.res.body.mimeType = sent'.local.mimeType
             /\ (~Falsy(sent'.req.accessToken) /\ sent'.req.content = UNDEF) =>
                   /\ sent'.res.status = 400 /\ sent'.calls = 0
                   /\ drive' = drive
             /\ (~Falsy(sent'.req.accessToken) /\ sent'.req.content # UNDEF) =>
                   sent'.calls > 0
       /\ \A r \in Req :
             (req[r].op = "setContent" /\ pc[r] = "get" /\ pc'[r] = "closed") =>
                /\ sent'.r = r /\ sent'.calls = 1
                /\ sent'.got.outcome # "ok"
                /\ sent'.res.status \in {404, 500}
                /\ drive' = drive]_vars

\* A setContent with the empty string as content, answered 200, the file
\* now holding the empty string.
C15_Witness ==
    /\ sent.req.op = "setContent" /\ sent.req.content = ""
    /\ sent.res.status = 200
    /\ drive[sent.req.id].content = ""
    /\ drive[sent.req.id].mimeType = InitialMimeType(sent.req.id)

\* C16: a rename with an access token and an absent or empty filename is
\* answered 400 on arrival, with no upstream call, Drive left as it was.  With
\* a non-empty filename the request is answered after exactly one upstream
\* call; when that call succeeds the file bears the filename and the answer
\* is 200 with the file's id and that name.
C16_Rename ==
    [][(sent'.req.op = "rename" /\ ~Falsy(sent'.req.accessToken)) =>
          LET q == sent'.req IN
          /\ Falsy(q.filename) =>
                /\ sent'.res.status = 400 /\ sent'.calls = 0
                /\ drive' = drive
          /\ ~Falsy(q.filename) =>
                /\ sent'.calls = 1
                /\ sent'.got.outcome = "ok" <=> sent'.res.status = 200
                /\ sent'.res.status = 200 =>
                      /\ drive'[q.id] = [drive[q.id] EXCEPT !.name = q.filename]
                      /\ \A f \in Files \ {q.id} : drive'[f] = drive[f]
                      /\ sent'.res.body = [id |-> q.id, name |-> q.filename]
                /\ sent'.res.status # 200 => drive' = drive]_vars

\* A rename with an access token and an empty filename, answered 400.
C16_Witness ==
    /\ sent.req.op = "rename" /\ sent.req.accessToken = "atA"
    /\ sent.req.filename = ""
    /\ sent.res.status = 400 /\ sent.calls = 0

\* The request q passes the checks its route makes on arrival, the session
\* check first: the handler goes on to an upstream call.
PassesChecks(q) ==
    CASE q.op \in {"getStar", "toggleStar", "getContent", "fetchCurrentUser"} ->
            ~Unauthenticated(q)
      [] q.op = "setContent" -> SetContentCheck(q) = 0
      [] q.op = "rename" -> RenameCheck(q) = 0
      [] q.op = "exchangeCode" -> ExchangeCodeCheck(q) = 0
      [] q.op = "refreshAccessToken" -> RefreshCheck(q) = 0
      [] OTHER -> FALSE

\* The routes whose handler awaits one upstream call, and those whose
\* handler awaits a second call after the first.
OneCallRoutes ==
    {"getStar", "rename", "fetchCurrentUser", "exchangeCode", "refreshAccessToken"}
TwoCallRoutes == {"toggleStar", "setContent", "getContent"}

\* C17 as stated: a request that passes the checks of its route is answered
\* after exactly one upstream call.
C17_ExactlyOneCall ==
    PassesChecks(sent.req) => sent.calls = 1

\* C17 amended: a request that passes the checks of its route is answered
\* after exactly one upstream call on the routes getStar, rename,
\* fetchCurrentUser, exchangeCode and refreshAccessToken, and after one or
\* two on toggleStar, setContent and getContent: one only if the first call
\* failed or the gate of getContent rejected the mime type, two whenever the
\* answer is 200.  Every other request is answered with no upstream call.
C17_OneOrTwoCalls ==
    /\ sent.r # 0 =>
          LET q == sent.req
              n == sent.calls IN
          /\ ~PassesChecks(q) => n = 0
          /\ (PassesChecks(q) /\ q.op \in OneCallRoutes) => n = 1
          /\ (PassesChecks(q) /\ q.op \in TwoCallRoutes) =>
                /\ n \in {1, 2}
                /\ sent.res.status = 200 => n = 2
                /\ n = 1 => \/ sent.got.outcome # "ok"
                            \/ q.op = "getContent" /\ sent.res.status = 400
    /\ \A r \in Req :
          /\ calls[r] <= 2
          /\ calls[r] = 2 => req[r].op \in TwoCallRoutes

\* A toggleStar answered 200 after its two upstream calls.
C17_Witness ==
    /\ sent.req.op = "toggleStar" /\ sent.res.status = 200
    /\ sent.calls = 2

\* What a step does to request r when the call r awaits completes: either
\* the call was the first of a two-call route and succeeded, and the handler
\* issues the second call with what the first returned; or the handler
\* answers with the calls issued so far and ends, with an error status if
\* the call failed.
NoRetryStep(r) ==
    (Awaiting(r) /\ pc'[r] # pc[r]) =>
       \/ /\ req[r].op \in TwoCallRoutes /\ pc[r] = "get"
          /\ pc'[r] = (IF req[r].op = "getContent" THEN "media" ELSE "update")
          /\ calls[r] = 1 /\ calls'[r] = 2
          /\ sent' = NoSent
          /\ req[r].op = "toggleStar" =>
                local'[r].starred = drive[req[r].id].starred
          /\ req[r].op \in {"setContent", "getContent"} =>
                local'[r].mimeType = drive[req[r].id].mimeType
       \/ /\ pc'[r] = "closed" /\ calls'[r] = 0
          /\ sent'.r = r /\ sent'.req = req[r] /\ sent'.calls = calls[r]
          /\ sent'.got.outcome # "ok" => sent'.res.status \in {401, 404, 500}

\* An answered request stays answered: no further call, no second answer.
AnsweredOnce(r) ==
    pc[r] = "closed" => (pc'[r] = "closed" /\ calls'[r] = 0 /\ sent'.r # r)

\* C18: no retry.  The step in which an upstream call of a request fails
\* answers the request with an error and ends it, with no further upstream
\* call: a second call is issued only by the step in which the first call
\* succeeded.  An answered request is never answered again.  If every
\* upstream call eventually returns or fails, every request that awaits one
\* is eventually answered.
C18_NoRetry ==
    /\ [][\A r \in Req : NoRetryStep(r) /\ AnsweredOnce(r)]_vars
    /\ \A r \in Req : Awaiting(r) ~> pc[r] = "closed"

\* A toggleStar whose read failed, answered 404 after that one call.
C18_Witness ==
    /\ sent.req.op = "toggleStar" /\ sent.calls = 1
    /\ sent.got.outcome = "notfound" /\ sent.res.status = 404

\* C19: the authorization URL carries the given returnUrl, or "/" when none
\* is given, as its state; and the callback completes a login (sets the
\* cookies and redirects) only for a state that an authorization URL sent
\* before carried.
C19_StateBinding ==
    /\ sent.req.op = "buildAuthorizationUrl" =>
          sent.res.body.url.state =
             (IF sent.req.returnUrl = UNDEF THEN "/" ELSE sent.req.returnUrl)
    /\ (sent.req.op = "exchangeCode" /\ sent.res.status = 302) =>
          sent.req.state \in issued

\* The routes of the auth endpoints.
AuthEndpoints ==
    {"buildAuthorizationUrl", "exchangeCode", "refreshAccessToken",
     "checkStatus", "fetchCurrentUser", "logout"}

\* C20: every response of an auth endpoint, on success and on error paths
\* alike, carries the four security headers.
C20_SecurityHeaders ==
    sent.req.op \in AuthEndpoints => SecurityHeaders \subseteq sent.res.headers

\* The request whose handler takes the step, as the handler received it.
Stepping(r) ==
    IF pc[r] = "idle"
    THEN (IF pc'[r] = "closed" THEN sent'.req ELSE req'[r])
    ELSE req[r]

\* C21: a step of the handler of a request changes at most one field of at
\* most the file the request names: none on the routes getStar, getContent,
\* checkStatus and fetchCurrentUser (nor on the other auth routes), only
\* starred on toggleStar, only name on rename, only content on setContent;
\* and a step that answers 400 or 401 changes no file.
C21_Frame ==
    [][\A r \in Req :
         pc'[r] # pc[r] =>
            LET q == Stepping(r) IN
            /\ \A f \in Files \ {q.id} : drive'[f] = drive[f]
            /\ q.op \notin {"toggleStar", "rename", "setContent"} => drive' = drive
            /\ q.op = "toggleStar" =>
                  drive'[q.id] = [drive[q.id] EXCEPT !.starred = drive'[q.id].starred]
            /\ q.op = "rename" =>
                  drive'[q.id] = [drive[q.id] EXCEPT !.name = drive'[q.id].name]
            /\ q.op = "setContent" =>
                  drive'[q.id] = [drive[q.id] EXCEPT !.content = drive'[q.id].content]
            /\ (sent'.r = r /\ sent'.res.status \in {400, 401}) => drive' = drive
            /\ drive' # drive => (sent'.r = r /\ sent'.res.status = 200)]_vars

\* A rename answered 200: the file it names bears the new name, the other
\* file its old one.
C21_Witness ==
    /\ sent.req.op = "rename" /\ sent.res.status = 200
    /\ drive[sent.req.id].name = "new.md"
    /\ \E f \in Files \ {sent.req.id} : drive[f].name = "a.md"

====
